---- MODULE Spec2Model ----
(***************************************************************************)
(* Model of src/download.py (and the statistics of src/main.py):           *)
(*   - unify_title_url_mappings: the two-pass canonicalisation of the      *)
(*     (url, title, artist) table;                                         *)
(*   - get_mp3s_for_dataset: the completion filter, the thread pool, the   *)
(*     collection of outcomes and the failure manifest;                    *)
(*   - _download_one: one fetch (resolve, trim window, download, cleanup). *)
(* Strings whose content the code inspects (urls, file names, the          *)
(* manifest) are tuples of one-character strings.                          *)
(***************************************************************************)
EXTENDS Integers, Sequences, FiniteSets, TLC

\* ------------------------------------------------------------------ bounds

\* Longest raw table the canonicaliser is run on.
MaxRows == 3
\* Largest max_workers a run is started with.
MaxWorkers == 2
\* Longest resolved duration (seconds) of the single-fetch specification.
MaxDuration == 100
\* Most runs of get_mp3s_for_dataset over the same directory.
MaxRuns == 2

\* ------------------------------------------------------- program constants

CLIP_DURATION == 30

\* ".mp3", the extension of final_path and of the completion filter.
Mp3 == <<".", "m", "p", "3">>

\* ------------------------------------------------------------------ inputs

\* Urls of the modelled tables; the text after the last "/" is the track id.
UrlA == <<"t", "/", "A">>
UrlB == <<"t", "/", "B">>
UrlC == <<"C">>
Urls == {UrlA, UrlB, UrlC}
Titles == {"T1", "T2"}
Artists == {"R1", "R2"}

\* A row of the table, projected on the three columns the code uses. The
\* columns hold strings: null cells are not modelled.
Row == [url : Urls, title : Titles, artist : Artists]

\* Every sequence over S of length at most n.
SeqUpTo(S, n) == UNION {[1..k -> S] : k \in 0..n}

\* ----------------------------------------------------------- state

VARIABLES
    canon_pc,   \* position of the canonicalisation: "idle", "raw", "unified", "again"
    raw,        \* the scanned csv: a sequence of rows
    unified,    \* unify_title_url_mappings(raw)
    again,      \* the distinct rows of a second canonicalisation of the output
    phase,      \* position of get_mp3s_for_dataset: "idle", "start", "submit",
                \* "collect", "unwind", "returned", "aborted"
    lf,         \* the frame get_mp3s_for_dataset is called with
    max_workers,
    dir,        \* the file names in SONGS_DIR
    songs,      \* lf.select(...).unique(subset=["url"]).collect()
    to_download,\* the rows to fetch, in submission order
    st,         \* per submitted row: "new", "queued", "resolve", "download", "done"
    job,        \* per row being downloaded: the resolved duration and the window
    result,     \* per row: what its future holds once the call has ended
    collected,  \* the futures as_completed has yielded
    failed,     \* the list of failed urls
    manifest,   \* failed_urls.txt: <<>> (no file) or <<content>>
    existing,   \* the ids of the .mp3 files listed before the pool starts
    starts,     \* per submitted row: how many times _download_one was entered
    done_order, \* the rows whose future is done, in the order they got done
    finished0,  \* the futures as_completed found done when it was entered
    env,        \* the columns of lf and the state of the storage root
    run,        \* the number of the run of get_mp3s_for_dataset
    prev        \* how the fetches of the previous run ended, by url

canonVars == <<canon_pc, raw, unified, again>>
runVars == <<phase, lf, max_workers, dir, songs, to_download, st, job, result,
             collected, failed, manifest, existing, starts, done_order,
             finished0, env, run, prev>>
vars == <<canonVars, runVars>>

\* ------------------------------------------------- unify_title_url_mappings

\* first() over a group, given as the set of its row indices: the row that
\* comes first in the table's order.
first_index(group) == CHOOSE i \in group : \A j \in group : i <= j

\* The row of a group that comes last.
last_index(group) == CHOOSE i \in group : \A j \in group : j <= i

\* The group of url u in group_by("url").
url_group(tbl, u) == {i \in DOMAIN tbl : tbl[i].url = u}

\* A slip in step 1: last() for first().
url_canonical_last(tbl, u) ==
    LET last == tbl[last_index(url_group(tbl, u))]
    IN  [canonical_title |-> last.title, canonical_artist |-> last.artist]

\* lf.group_by("url").agg(title.first(), artist.first()), looked up at url u.
url_canonical(tbl, u) ==
    LET first == tbl[first_index(url_group(tbl, u))]
    IN  [canonical_title |-> first.title, canonical_artist |-> first.artist]

\* A slip in step 1: the join is left out and the raw spellings stay.
step1_no_join(tbl) == tbl

\* lf.join(url_canonical, on="url", how="left"), title/artist replaced. The
\* left join keeps the rows of the left table, in their order.
step1(tbl) ==
    [i \in DOMAIN tbl |->
        [url    |-> tbl[i].url,
         title  |-> url_canonical(tbl, tbl[i].url).canonical_title,
         artist |-> url_canonical(tbl, tbl[i].url).canonical_artist]]

\* The group of (t, a) in group_by("title", "artist").
title_artist_group(s1, t, a) ==
    {i \in DOMAIN s1 : s1[i].title = t /\ s1[i].artist = a}

\* A slip in step 2: the groups are keyed by title alone.
title_artist_canonical_by_title(s1, t, a) ==
    s1[first_index({i \in DOMAIN s1 : s1[i].title = t})].url

\* A slip in step 2: last() for first().
title_artist_canonical_last(s1, t, a) ==
    s1[last_index(title_artist_group(s1, t, a))].url

\* step1.group_by("title", "artist").agg(url.first()), looked up at (t, a).
title_artist_canonical(s1, t, a) ==
    s1[first_index(title_artist_group(s1, t, a))].url

\* A slip in step 2: the join is left out and every url stays.
step2_no_join(s1) == s1

\* step1.join(title_artist_canonical, on=["title","artist"], how="left"),
\* url replaced.
step2(s1) ==
    [i \in DOMAIN s1 |->
        [url    |-> title_artist_canonical(s1, s1[i].title, s1[i].artist),
         title  |-> s1[i].title,
         artist |-> s1[i].artist]]

unify_title_url_mappings(tbl) == step2(step1(tbl))

\* The distinct (url, title, artist) rows of a table.
DistinctRows(tbl) == {tbl[i] : i \in DOMAIN tbl}

\* main's statistics: url n_unique and struct(title, artist) n_unique.
unique_urls(tbl) == Cardinality({tbl[i].url : i \in DOMAIN tbl})
unique_song_artist_pairs(tbl) ==
    Cardinality({<<tbl[i].title, tbl[i].artist>> : i \in DOMAIN tbl})

\* Every listing of the set S as a sequence without repetition.
Orderings(S) ==
    {s \in [1..Cardinality(S) -> S] : \A i, j \in DOMAIN s : s[i] = s[j] => i = j}

\* ----------------------------------------------- canonicalisation actions

\* No run of get_mp3s_for_dataset is under way.
RunIdle ==
    /\ phase = "idle"
    /\ lf = <<>>
    /\ max_workers = 1
    /\ dir = {}
    /\ songs = <<>>
    /\ to_download = <<>>
    /\ st = <<>>
    /\ job = <<>>
    /\ result = <<>>
    /\ collected = {}
    /\ failed = <<>>
    /\ manifest = <<>>
    /\ existing = {}
    /\ starts = <<>>
    /\ done_order = <<>>
    /\ finished0 = {}
    /\ env = [columns |-> {"url", "title", "artist"}, storage |-> "ok"]
    /\ run = 0
    /\ prev = [ok |-> {}, error |-> {}, raised |-> {}]

InitCanon ==
    /\ canon_pc = "raw"
    /\ raw \in SeqUpTo(Row, MaxRows)
    /\ unified = <<>>
    /\ again = {}
    /\ RunIdle

\* unified_lf = unify_title_url_mappings(csv_path)
Canonicalize ==
    /\ canon_pc = "raw"
    /\ unified' = unify_title_url_mappings(raw)
    /\ canon_pc' = "unified"
    /\ UNCHANGED <<raw, again, runVars>>

\* The canonicaliser run on its own output: on the rows as returned, or on
\* the distinct rows in any order.
Recanonicalize ==
    /\ canon_pc = "unified"
    /\ \E input \in {unified} \cup Orderings(DistinctRows(unified)) :
           again' = DistinctRows(unify_title_url_mappings(input))
    /\ canon_pc' = "again"
    /\ UNCHANGED <<raw, unified, runVars>>

NextCanon == Canonicalize \/ Recanonicalize

SpecCanon == InitCanon /\ [][NextCanon]_vars

\* ------------------------------------------------------------ strings

Max(S) == CHOOSE x \in S : \A y \in S : y <= x

\* url.rsplit("/", 1)[-1]
track_id_of(url) ==
    LET slashes == {i \in DOMAIN url : url[i] = "/"}
    IN  IF slashes = {} THEN url
        ELSE SubSeq(url, Max(slashes) + 1, Len(url))

\* f.endswith(suffix)
endswith(f, suffix) ==
    /\ Len(f) >= Len(suffix)
    /\ SubSeq(f, Len(f) - Len(suffix) + 1, Len(f)) = suffix

\* f.removesuffix(suffix)
removesuffix(f, suffix) ==
    IF suffix # <<>> /\ endswith(f, suffix)
    THEN SubSeq(f, 1, Len(f) - Len(suffix))
    ELSE f

\* "\n".join(lines)
RECURSIVE join(_)
join(lines) ==
    IF lines = <<>> THEN <<>>
    ELSE IF Len(lines) = 1 THEN lines[1]
    ELSE lines[1] \o <<"\n">> \o join(Tail(lines))

\* --------------------------------------------------------- _download_one

\* Python's None and a value that is not None.
None == <<>>
Some(x) == <<x>>

\* What str(e) can be: an exception's message may be empty.
Messages == {"", "boom"}

\* The extension %(ext)s of the downloaded source, and of its partial file.
SrcExt == <<".", "w", "e", "b", "m">>
PartExt == SrcExt \o <<".", "p", "a", "r", "t">>

\* os.path.join(SONGS_DIR, f"{track_id}.mp3"), as a name in SONGS_DIR.
final_path(track_id) == track_id \o Mp3

\* What a download that raises can leave in SONGS_DIR: nothing, the partial
\* source, or the source and a partly transcoded mp3.
Leftovers(track_id) ==
    { {},
      {track_id \o PartExt},
      {track_id \o SrcExt, final_path(track_id)} }

\* A slip in the trim window: the start is not halved.
start_time_not_halved(duration) ==
    IF duration <= CLIP_DURATION THEN 0 ELSE duration - CLIP_DURATION

\* start_time, from the resolved duration.
start_time_of(duration) ==
    IF duration <= CLIP_DURATION THEN 0
    ELSE (duration - CLIP_DURATION) \div 2

\* The range handed to download_range_func.
download_range(duration) ==
    <<start_time_of(duration), start_time_of(duration) + CLIP_DURATION>>

\* The rows whose call is running in a pool thread.
Running == {k \in DOMAIN st : st[k] \in {"resolve", "download"}}

\* A slip in the pool: no limit on the threads.
PoolUnbounded == TRUE

\* A slip in the pool: one thread too few.
PoolOneShort == Cardinality(Running) < max_workers - 1

\* ThreadPoolExecutor(max_workers): a queued call starts when fewer than
\* max_workers are running.
PoolHasThread == Cardinality(Running) < max_workers

\* A slip: a call that failed is queued again, once.
Return_with_retry(k, error) ==
    IF error # <<>> /\ starts[k] < 2
    THEN /\ st' = [st EXCEPT ![k] = "queued"]
         /\ job' = [job EXCEPT ![k] = <<>>]
         /\ UNCHANGED <<done_order, result>>
    ELSE /\ st' = [st EXCEPT ![k] = "done"]
         /\ job' = [job EXCEPT ![k] = <<>>]
         /\ done_order' = Append(done_order, k)
         /\ result' = [result EXCEPT ![k] =
                <<[kind |-> "returned", error |-> error,
                   track_id |-> track_id_of(to_download[k].url)]>>]

\* The call returns (track_id, error).
Return(k, error) ==
    /\ st' = [st EXCEPT ![k] = "done"]
    /\ job' = [job EXCEPT ![k] = None]
    /\ done_order' = Append(done_order, k)
    /\ result' = [result EXCEPT ![k] =
           Some([kind |-> "returned", track_id |-> track_id_of(to_download[k].url),
                 error |-> error])]

\* The call ends with an exception, which the future keeps.
Raise(k) ==
    /\ st' = [st EXCEPT ![k] = "done"]
    /\ job' = [job EXCEPT ![k] = None]
    /\ done_order' = Append(done_order, k)
    /\ result' = [result EXCEPT ![k] =
           Some([kind |-> "raised", track_id |-> track_id_of(to_download[k].url),
                 error |-> None])]

\* except Exception as e: with `files` in SONGS_DIR and str(e) = msg. The
\* final path, if it exists, is removed; os.remove may itself raise, and
\* that exception leaves the call.
ExceptHandler(k, files, msg) ==
    LET final == final_path(track_id_of(to_download[k].url))
    IN  IF final \in files
        THEN \/ /\ dir' = files \ {final}
                /\ Return(k, Some(msg))
             \/ /\ dir' = files
                /\ Raise(k)
        ELSE /\ dir' = files
             /\ Return(k, Some(msg))

\* A pool thread takes the oldest queued call.
StartWorker(k) ==
    /\ phase \in {"submit", "collect", "unwind"}
    /\ st[k] = "queued"
    /\ \A j \in 1..(k - 1) : st[j] \notin {"new", "queued"}
    /\ PoolHasThread
    /\ st' = [st EXCEPT ![k] = "resolve"]
    /\ starts' = [starts EXCEPT ![k] = @ + 1]
    /\ UNCHANGED <<phase, lf, max_workers, dir, songs, to_download, job, result,
                   collected, failed, manifest, canonVars, existing, done_order,
                   finished0, env, run, prev>>

\* extract_info returns a duration d and the window is computed, or the
\* resolution (or the window computation) raises.
Resolve(k, Durations) ==
    /\ st[k] = "resolve"
    /\ \/ \E d \in Durations :
            /\ st' = [st EXCEPT ![k] = "download"]
            /\ job' = [job EXCEPT ![k] =
                   Some([duration |-> d, range |-> download_range(d)])]
            /\ UNCHANGED <<dir, result, done_order>>
       \/ \E msg \in Messages : ExceptHandler(k, dir, msg)
    /\ UNCHANGED <<phase, lf, max_workers, songs, to_download, collected, failed,
                   manifest, canonVars, existing, starts, finished0, env, run,
                   prev>>

\* ydl.download writes {track_id}.mp3 (the source it was made from is
\* deleted) and the call returns (track_id, None), or it raises, leaving
\* some files behind.
Download(k) ==
    /\ st[k] = "download"
    /\ LET id == track_id_of(to_download[k].url)
       IN  \/ /\ dir' = (dir \ {id \o PartExt, id \o SrcExt}) \cup {final_path(id)}
              /\ Return(k, None)
           \/ \E left \in Leftovers(id), msg \in Messages :
                  ExceptHandler(k, dir \cup left, msg)
    /\ UNCHANGED <<phase, lf, max_workers, songs, to_download, collected, failed,
                   manifest, canonVars, existing, starts, finished0, env, run,
                   prev>>

\* -------------------------------------------------- get_mp3s_for_dataset

\* A slip in the filter: every listed name counts, whatever its extension.
existing_of_any_file(listing) == {removesuffix(f, Mp3) : f \in listing}

\* {f.removesuffix(".mp3") for f in os.listdir(SONGS_DIR) if f.endswith(".mp3")}
existing_of(listing) ==
    {removesuffix(f, Mp3) : f \in {g \in listing : endswith(g, Mp3)}}

\* A slip in the filter: every row is fetched, downloaded before or not.
is_pending_always(row, ids) == TRUE

\* row["url"].rsplit("/", 1)[-1] not in existing, for existing = ids
is_pending(row, ids) == track_id_of(row.url) \notin ids

\* [row for row in rows if ...], the order kept.
RECURSIVE pending_rows(_, _)
pending_rows(rows, ids) ==
    IF rows = <<>> THEN <<>>
    ELSE (IF is_pending(Head(rows), ids) THEN <<Head(rows)>> ELSE <<>>)
         \o pending_rows(Tail(rows), ids)

\* A slip: unique() is left out.
unique_by_url_keep_all(tbl) == {tbl}

\* What unique(subset=["url"]).collect() can return: one row of tbl per url,
\* in any order.
unique_by_url(tbl) ==
    LET urls == {tbl[i].url : i \in DOMAIN tbl}
    IN  {s \in [1..Cardinality(urls) -> DistinctRows(tbl)] :
            \A i, j \in DOMAIN s : s[i].url = s[j].url => i = j}

\* if error:
Truthy(error) == error # None /\ error[1] # ""

\* The columns select() asks for.
RequiredColumns == {"url", "title", "artist"}

\* A slip: the run goes on whatever the table and the storage root are.
inputs_unchecked == TRUE

\* os.makedirs, select(...).collect() and os.listdir all succeed.
inputs_usable ==
    /\ env.storage = "ok"
    /\ RequiredColumns \subseteq env.columns

\* Lines 127-144: the songs, the existing ids, the rows to download, the
\* empty failed list and the pool.
Prepare ==
    /\ phase = "start"
    /\ inputs_usable
    /\ \E rows \in unique_by_url(lf) :
           /\ songs' = rows
           /\ to_download' = pending_rows(rows, existing_of(dir))
    /\ existing' = existing_of(dir)
    /\ st' = [k \in DOMAIN to_download' |-> "new"]
    /\ job' = [k \in DOMAIN to_download' |-> None]
    /\ result' = [k \in DOMAIN to_download' |-> None]
    /\ starts' = [k \in DOMAIN to_download' |-> 0]
    /\ collected' = {}
    /\ done_order' = <<>>
    /\ finished0' = {}
    /\ failed' = <<>>
    /\ phase' = "submit"
    /\ UNCHANGED <<lf, max_workers, dir, manifest, canonVars, env, run, prev>>

\* os.makedirs (line 127), select(...).collect() (line 130) or os.listdir
\* (line 134) raises: the exception leaves get_mp3s_for_dataset.
Fatal ==
    /\ phase = "start"
    /\ ~inputs_usable
    /\ phase' = "aborted"
    /\ UNCHANGED <<lf, max_workers, dir, songs, to_download, st, job, result,
                   collected, failed, manifest, canonVars, existing, starts,
                   done_order, finished0, env, run, prev>>

\* pool.submit(_download_one, ...) for the next row of to_download.
Submit(k) ==
    /\ phase = "submit"
    /\ st[k] = "new"
    /\ \A j \in 1..(k - 1) : st[j] # "new"
    /\ st' = [st EXCEPT ![k] = "queued"]
    /\ UNCHANGED <<phase, lf, max_workers, dir, songs, to_download, job, result,
                   collected, failed, manifest, canonVars, existing, starts,
                   done_order, finished0, env, run, prev>>

\* as_completed(futures) is entered, every row submitted: it notes the
\* futures that are done already.
BeginCollect ==
    /\ phase = "submit"
    /\ \A k \in DOMAIN st : st[k] # "new"
    /\ finished0' = {k \in DOMAIN st : st[k] = "done"}
    /\ phase' = "collect"
    /\ UNCHANGED <<lf, max_workers, dir, songs, to_download, st, job, result,
                   collected, failed, manifest, canonVars, existing, starts,
                   done_order, env, run, prev>>

\* The futures as_completed can yield next: any of those it found done when
\* it was entered (it keeps them in a set), and after them the others in
\* the order they got done.
as_completed_next ==
    IF finished0 \ collected # {} THEN finished0 \ collected
    ELSE LET later == {i \in DOMAIN done_order : done_order[i] \notin collected}
         IN  IF later = {} THEN {}
             ELSE {done_order[CHOOSE i \in later : \A j \in later : i <= j]}

\* The as_completed loop has yielded every future.
loop_exhausted == collected = DOMAIN to_download

\* One turn of the as_completed loop, on a future that is done:
\* future.result() raises what the call raised, or the error is looked at.
Collect(k) ==
    /\ phase = "collect"
    /\ st[k] = "done"
    /\ k \in as_completed_next
    /\ collected' = collected \cup {k}
    /\ IF result[k][1].kind = "raised"
       THEN /\ phase' = "unwind"
            /\ UNCHANGED failed
       ELSE /\ phase' = phase
            /\ failed' = IF Truthy(result[k][1].error)
                         THEN Append(failed, to_download[k].url)
                         ELSE failed
    /\ UNCHANGED <<lf, max_workers, dir, songs, to_download, st, job, result,
                   manifest, canonVars, existing, starts, done_order, finished0,
                   env, run, prev>>

\* Every future was yielded: the pool shuts down and the manifest is
\* written if some url failed.
Finish ==
    /\ phase = "collect"
    /\ loop_exhausted
    /\ manifest' = IF failed # <<>> THEN Some(join(failed)) ELSE manifest
    /\ phase' = "returned"
    /\ UNCHANGED <<lf, max_workers, dir, songs, to_download, st, job, result,
                   collected, failed, canonVars, existing, starts, done_order,
                   finished0, env, run, prev>>

\* An exception left the loop: the with block waits for every submitted
\* call, then the exception leaves get_mp3s_for_dataset.
Abort ==
    /\ phase = "unwind"
    /\ \A k \in DOMAIN st : st[k] = "done"
    /\ phase' = "aborted"
    /\ UNCHANGED <<lf, max_workers, dir, songs, to_download, st, job, result,
                   collected, failed, manifest, canonVars, existing, starts,
                   done_order, finished0, env, run, prev>>

\* How the fetches of the run that has ended went, by url.
run_summary ==
    LET Ended(kind) == {k \in DOMAIN result :
                           result[k] # None /\ result[k][1].kind = kind}
    IN  [ok     |-> {to_download[k].url : k \in
                        {j \in Ended("returned") : result[j][1].error = None}},
         error  |-> {to_download[k].url : k \in
                        {j \in Ended("returned") : result[j][1].error # None}},
         raised |-> {to_download[k].url : k \in Ended("raised")}]

\* get_mp3s_for_dataset is called again with the same frame, over the
\* directory and the manifest the run before left.
NextRun ==
    /\ phase \in {"returned", "aborted"}
    /\ inputs_usable
    /\ run < MaxRuns
    /\ run' = run + 1
    /\ prev' = run_summary
    /\ phase' = "start"
    /\ songs' = <<>>
    /\ to_download' = <<>>
    /\ st' = <<>>
    /\ job' = <<>>
    /\ result' = <<>>
    /\ starts' = <<>>
    /\ collected' = {}
    /\ done_order' = <<>>
    /\ finished0' = {}
    /\ failed' = <<>>
    /\ existing' = {}
    /\ UNCHANGED <<lf, max_workers, dir, manifest, canonVars, env>>

\* ------------------------------------------------------- specifications

CanonIdle ==
    /\ canon_pc = "idle"
    /\ raw = <<>>
    /\ unified = <<>>
    /\ again = {}

RunStart ==
    /\ phase = "start"
    /\ songs = <<>>
    /\ to_download = <<>>
    /\ st = <<>>
    /\ job = <<>>
    /\ result = <<>>
    /\ collected = {}
    /\ failed = <<>>
    /\ manifest = None
    /\ existing = {}
    /\ starts = <<>>
    /\ done_order = <<>>
    /\ finished0 = {}
    /\ run = 1
    /\ prev = [ok |-> {}, error |-> {}, raised |-> {}]

\* The frame has the three columns and the storage root can be used.
GoodEnv == [columns |-> RequiredColumns, storage |-> "ok"]

RowA == [url |-> UrlA, title |-> "T1", artist |-> "R1"]
RowB == [url |-> UrlB, title |-> "T2", artist |-> "R1"]
RowC == [url |-> UrlC, title |-> "T1", artist |-> "R2"]

\* The durations a resolution returns in a run of the whole pipeline.
RunDurations == {10, 100}

\* The frames a run of the whole pipeline is given: no song, one, three,
\* and a frame in which a url comes twice.
RunTables ==
    {<<>>, <<RowC>>, <<RowA, RowB, RowC>>, <<RowA, RowB, RowA>>}

\* A run over up to three songs, one of them perhaps downloaded before.
Init ==
    /\ CanonIdle
    /\ RunStart
    /\ env = GoodEnv
    /\ lf \in RunTables
    /\ max_workers \in 1..MaxWorkers
    /\ dir \in SUBSET {final_path(<<"A">>)}

Next ==
    \/ Prepare
    \/ \E k \in DOMAIN st : Submit(k)
    \/ \E k \in DOMAIN st : StartWorker(k)
    \/ \E k \in DOMAIN st : Resolve(k, RunDurations)
    \/ \E k \in DOMAIN st : Download(k)
    \/ BeginCollect
    \/ \E k \in DOMAIN st : Collect(k)
    \/ Finish
    \/ Abort

Spec == Init /\ [][Next]_vars

\* The completion filter alone, over tables and directory contents that
\* exercise the id and the extension: a url without "/", a url that ends
\* in "/", files with other extensions and files without one.
UrlE == <<"t", "/">>
RowE == [url |-> UrlE, title |-> "T2", artist |-> "R2"]

FilePool ==
    { final_path(<<"A">>), final_path(<<"B">>), final_path(<<"C">>),
      final_path(<<>>), <<"A">> \o SrcExt, <<"B">> \o PartExt, <<"B">> }

InitFilter ==
    /\ CanonIdle
    /\ RunStart
    /\ env = GoodEnv
    /\ lf \in SeqUpTo({RowA, RowB, RowC, RowE}, MaxRows)
    /\ max_workers = 1
    /\ dir \in SUBSET FilePool

NextFilter == Prepare

SpecFilter == InitFilter /\ [][NextFilter]_vars

\* Two fetches, over every resolved duration up to MaxDuration.
InitTrim ==
    /\ CanonIdle
    /\ RunStart
    /\ env = GoodEnv
    /\ lf = <<RowA, RowB>>
    /\ max_workers = 2
    /\ dir = {}

NextTrim ==
    \/ Prepare
    \/ \E k \in DOMAIN st : Submit(k)
    \/ \E k \in DOMAIN st : StartWorker(k)
    \/ \E k \in DOMAIN st : Resolve(k, 0..MaxDuration)
    \/ \E k \in DOMAIN st : Download(k)
    \/ BeginCollect
    \/ \E k \in DOMAIN st : Collect(k)
    \/ Finish
    \/ Abort

SpecTrim == InitTrim /\ [][NextTrim]_vars

\* get_mp3s_for_dataset called up to MaxRuns times over the same frame of
\* two songs and the same directory, empty before the first run.
InitRuns ==
    /\ CanonIdle
    /\ RunStart
    /\ env = GoodEnv
    /\ lf = <<RowA, RowB>>
    /\ max_workers \in 1..MaxWorkers
    /\ dir = {}

NextRuns ==
    \/ Next
    \/ NextRun

SpecRuns == InitRuns /\ [][NextRuns]_vars

\* A run over a frame that may lack columns and a storage root that may
\* be impossible to create ("no_create") or to list ("no_list").
Envs ==
    [columns : SUBSET RequiredColumns, storage : {"ok", "no_create", "no_list"}]

InitFatal ==
    /\ CanonIdle
    /\ RunStart
    /\ env \in Envs
    /\ lf \in {<<RowC>>, <<RowA, RowB>>}
    /\ max_workers \in 1..MaxWorkers
    /\ dir \in SUBSET {final_path(<<"A">>)}

NextFatal ==
    \/ Next
    \/ Fatal

SpecFatal == InitFatal /\ [][NextFatal]_vars

\* A run in which every step that can be taken is taken in the end: the
\* main thread goes on, a queued call gets a free thread, and the calls to
\* yt-dlp come back.
InitLive ==
    /\ CanonIdle
    /\ RunStart
    /\ env = GoodEnv
    /\ lf \in {<<RowC>>, <<RowA, RowB>>, <<RowA, RowB, RowC>>}
    /\ max_workers \in 1..MaxWorkers
    /\ dir = {}

SpecLive == InitLive /\ [][Next]_vars /\ WF_vars(Next)

\* ------------------------------------------------------------------ claims

Pair(r) == <<r.title, r.artist>>

\* The raw table holds a url under two (title, artist) spellings.
RawHasDrift ==
    \E i, j \in DOMAIN raw : raw[i].url = raw[j].url /\ Pair(raw[i]) # Pair(raw[j])

\* The raw table holds a (title, artist) pair under two urls.
RawHasRerelease ==
    \E i, j \in DOMAIN raw : raw[i].url # raw[j].url /\ Pair(raw[i]) = Pair(raw[j])

\* C1: in the distinct rows of the canonicalised table no url appears in more
\* than one row and no (title, artist) pair appears in more than one row.
C1_OutputKeys ==
    canon_pc \in {"unified", "again"} =>
        /\ \A r1, r2 \in DistinctRows(unified) :
               (r1.url = r2.url \/ Pair(r1) = Pair(r2)) => r1 = r2
        /\ unique_urls(unified) = unique_song_artist_pairs(unified)

C1_Witness ==
    /\ canon_pc = "unified"
    /\ RawHasDrift
    /\ RawHasRerelease
    /\ Cardinality(DistinctRows(unified)) >= 2

\* C2: canonicalising the canonical output again (in any row order) yields
\* the same set of (url, title, artist) rows.
C2_Idempotent ==
    canon_pc = "again" => again = DistinctRows(unified)

C2_Witness ==
    /\ canon_pc = "again"
    /\ RawHasDrift
    /\ Cardinality(again) >= 2

\* C3: every url of the canonical output appears in exactly one row, and carries
\* the title and artist of the first raw row, in source order, with that url.
C3_FirstSeenTitleArtist ==
    canon_pc \in {"unified", "again"} =>
        \A r \in DistinctRows(unified) :
            /\ Cardinality({q \in DistinctRows(unified) : q.url = r.url}) = 1
            /\ \E k \in DOMAIN raw :
                   /\ raw[k].url = r.url
                   /\ \A j \in 1..(k - 1) : raw[j].url # r.url
                   /\ Pair(r) = Pair(raw[k])

C3_Witness ==
    /\ canon_pc = "unified"
    /\ \E i, j \in DOMAIN raw :
           /\ i < j
           /\ raw[i].url = raw[j].url
           /\ Pair(raw[i]) # Pair(raw[j])
           /\ \E r \in DistinctRows(unified) : r.url = raw[i].url

\* C4: every (title, artist) pair present after step 1 appears in exactly one
\* row of the canonical output, with the url of the first row, in post-step-1
\* order, that carries the pair.
C4_FirstSeenUrl ==
    canon_pc \in {"unified", "again"} =>
        LET s1 == step1(raw)
            out == DistinctRows(unified)
        IN  \A i \in DOMAIN s1 :
                /\ Cardinality({r \in out : Pair(r) = Pair(s1[i])}) = 1
                /\ \A r \in out :
                       Pair(r) = Pair(s1[i]) =>
                           \E k \in DOMAIN s1 :
                               /\ Pair(s1[k]) = Pair(s1[i])
                               /\ \A j \in 1..(k - 1) : Pair(s1[j]) # Pair(s1[i])
                               /\ r.url = s1[k].url

C4_Witness ==
    /\ canon_pc = "unified"
    /\ LET s1 == step1(raw)
       IN  \E i, j \in DOMAIN s1 :
               /\ i < j
               /\ Pair(s1[i]) = Pair(s1[j])
               /\ s1[i].url # s1[j].url
               /\ \E r \in DistinctRows(unified) : r.url = s1[i].url

\* x is the text after the last "/" of url (the whole url if it has none).
IsItemId(url, x) ==
    \E p \in 0..Len(url) :
        /\ x = SubSeq(url, p + 1, Len(url))
        /\ \A i \in DOMAIN x : x[i] # "/"
        /\ p = 0 \/ url[p] = "/"

\* The storage directory holds an artifact (id + ".mp3") for the row's item id.
HasArtifact(r) ==
    \E f \in dir : \E n \in 0..Len(f) :
        /\ IsItemId(r.url, SubSeq(f, 1, n))
        /\ f = SubSeq(f, 1, n) \o Mp3

\* C5: the pending rows are exactly the canonical rows (one per url of the
\* table) whose item id is not the id of an existing ".mp3" artifact.
C5_PendingIsMissing ==
    phase # "start" =>
        /\ {r.url : r \in DistinctRows(songs)} = {r.url : r \in DistinctRows(lf)}
        /\ DistinctRows(to_download) = {r \in DistinctRows(songs) : ~HasArtifact(r)}

C5_Witness ==
    /\ phase # "start"
    /\ {r.url : r \in DistinctRows(songs)} = {UrlA, UrlB, UrlC}
    /\ {f \in dir : endswith(f, Mp3)} = {<<"A">> \o Mp3, <<"C">> \o Mp3}
    /\ <<"B">> \in dir
    /\ to_download = <<RowB>>

\* C6 as stated: the window requested is [0, duration] when duration <= D,
\* and [start, start + D] with start = floor((duration - D) / 2) otherwise.
C6_WindowAsStated ==
    \A k \in DOMAIN job :
        job[k] # None =>
            LET d == job[k][1].duration
                w == job[k][1].range
            IN  IF d <= 30
                THEN w = <<0, d>>
                ELSE w = <<(d - 30) \div 2, ((d - 30) \div 2) + 30>>

\* C6 amended: the window requested always has length D; it starts at 0 when
\* duration <= D (so it covers the whole resource) and is centred otherwise:
\* start = floor((duration - D) / 2).
C6_Window ==
    \A k \in DOMAIN job :
        job[k] # None =>
            LET d == job[k][1].duration
                w == job[k][1].range
            IN  /\ w[2] - w[1] = 30
                /\ d <= 30 => w[1] = 0 /\ d <= w[2]
                /\ d > 30 => 2 * w[1] <= d - 30 /\ d - 30 <= 2 * w[1] + 1

C6_Witness ==
    \E k, m \in DOMAIN job :
        /\ st[k] = "download"
        /\ job[k] = Some([duration |-> 10, range |-> <<0, 30>>])
        /\ st[m] = "download"
        /\ job[m] = Some([duration |-> 100, range |-> <<35, 65>>])

\* The call for row k has returned an outcome with an error.
ReturnedError(k) ==
    /\ result[k] # None
    /\ result[k][1].kind = "returned"
    /\ result[k][1].error # None

\* The names X.* of SONGS_DIR, for X the track id of row k.
FilesOf(k) ==
    LET prefix == track_id_of(to_download[k].url) \o <<".">>
    IN  {f \in dir : Len(f) >= Len(prefix) /\ SubSeq(f, 1, Len(prefix)) = prefix}

\* C7: once a fetch for id X has returned an outcome with an error, no file
\* named X.* is in the storage root.
C7_NoFileLeft ==
    \A k \in DOMAIN result : ReturnedError(k) => FilesOf(k) = {}

\* C8: no fetch ends with an exception, and no exception of a fetch ends
\* the run.
C8_NeverRaises ==
    /\ \A k \in DOMAIN result :
           result[k] # None => result[k][1].kind = "returned"
    /\ phase \notin {"unwind", "aborted"}

\* The number of lines of the manifest (0 if there is no file).
ManifestLines ==
    IF manifest = None \/ manifest[1] = <<>> THEN 0
    ELSE 1 + Cardinality({i \in DOMAIN manifest[1] : manifest[1][i] = "\n"})

\* C9: when the run has returned, the failed list holds exactly the urls of
\* the rows whose fetch failed, each once, the successes are the other
\* rows, and the manifest has one line per failed row.
C9_RunResult ==
    phase = "returned" =>
        LET F == {k \in DOMAIN to_download : ReturnedError(k)}
        IN  /\ {failed[i] : i \in DOMAIN failed} = {to_download[k].url : k \in F}
            /\ Len(failed) = Cardinality(F)
            /\ Cardinality(collected) - Len(failed) = Len(to_download) - Cardinality(F)
            /\ ManifestLines = Cardinality(F)

\* C10: at most max_workers fetches have started and not yet returned.
C10_ConcurrencyBound == Cardinality(Running) <= max_workers

C10_Witness ==
    /\ max_workers = 2
    /\ Cardinality(Running) = 2
    /\ \E k \in DOMAIN st : st[k] = "queued"

\* The run has ended and the fetch of some row returned an error.
EndedWithFailure ==
    /\ phase = "returned"
    /\ Len(to_download) = 3
    /\ \E k \in DOMAIN result : ReturnedError(k)

\* C11: within a run no url is submitted twice, no call is started more than
\* once (a failed one is not started again), and when the run has ended
\* every pending row was handed to a worker once.
C11_ExactlyOnce ==
    /\ \A k, m \in DOMAIN to_download :
           to_download[k].url = to_download[m].url => k = m
    /\ \A k \in DOMAIN starts : starts[k] <= 1
    /\ \A k \in DOMAIN starts : st[k] \in {"new", "queued"} <=> starts[k] = 0
    /\ phase \in {"returned", "aborted"} =>
           \A k \in DOMAIN to_download : starts[k] = 1

C11_Witness ==
    /\ EndedWithFailure
    /\ \A k \in DOMAIN to_download : starts[k] = 1

\* C12: when the run has ended (get_mp3s_for_dataset has given control back
\* to its caller, the pool shut down), every submitted row has produced an
\* outcome, none is queued or running, and the loop has consumed every
\* outcome.
C12_NoDroppedOutcome ==
    phase \in {"returned", "aborted"} =>
        /\ \A k \in DOMAIN st : st[k] = "done" /\ result[k] # None
        /\ collected = DOMAIN to_download

\* The urls of the rows whose fetch returned an error, in the order the
\* fetches got done.
FailedInCompletionOrder ==
    LET IsFailure(k) == ReturnedError(k)
        order == SelectSeq(done_order, IsFailure)
    IN  [i \in 1..Len(order) |-> to_download[order[i]].url]

\* C13: when the run has returned, the manifest has been written if and
\* only if the fetch of some row failed, and it then holds the urls of the
\* failed rows, one per line, in the order their fetches got done.
C13_ManifestWrite ==
    phase = "returned" =>
        /\ manifest # None <=> FailedInCompletionOrder # <<>>
        /\ manifest # None => manifest[1] = join(FailedInCompletionOrder)

\* Distinct urls of the songs have distinct final path segments.
DistinctSegments ==
    \A i, j \in DOMAIN songs : \A p \in 0..Len(songs[i].url) :
        LET x == SubSeq(songs[i].url, p + 1, Len(songs[i].url))
        IN  (IsItemId(songs[i].url, x) /\ IsItemId(songs[j].url, x))
                => songs[i].url = songs[j].url

\* C14: provided distinct urls of the songs have distinct final path
\* segments, no two running fetches have the same track id, so the files
\* one of them writes or removes are files of no other.
C14_ExclusiveOwnership ==
    DistinctSegments =>
        \A k, m \in Running :
            k # m =>
                /\ track_id_of(to_download[k].url)
                       # track_id_of(to_download[m].url)
                /\ FilesOf(k) \cap FilesOf(m) = {}

C14_Witness ==
    /\ Cardinality(Running) = 2
    /\ \A k \in Running : st[k] = "download"
    /\ lf = <<RowA, RowB, RowA>>

\* C18: the ids listed before the pool starts stay out of the run: no row
\* with such an id is submitted, and its .mp3 stays in the directory,
\* whatever happens to the other rows.
C18_ExistingUntouched ==
    \A id \in existing :
        /\ final_path(id) \in dir
        /\ \A k \in DOMAIN to_download : ~IsItemId(to_download[k].url, id)

C18_Witness ==
    /\ existing = {<<"A">>}
    /\ phase = "returned"
    /\ Len(to_download) = 2
    /\ \E k \in DOMAIN result : ReturnedError(k)
    /\ \E k \in DOMAIN result : result[k][1].error = None
\* A url is in the rows the run downloads.
IsPending(u) == \E k \in DOMAIN to_download : to_download[k].url = u

\* C15: in a run after another over the same directory and frame, every
\* url whose fetch failed in the run before is pending again, and no url
\* whose fetch succeeded in the run before is.
C15_DirectoryLedger ==
    (run > 1 /\ phase # "start") =>
        /\ \A u \in prev.error \cup prev.raised : IsPending(u)
        /\ \A u \in prev.ok : ~IsPending(u)

\* C19: when a run has returned and the manifest file exists, its lines are
\* exactly the urls whose fetch failed in that run.
C19_ManifestFresh ==
    (phase = "returned" /\ manifest # None) =>
        \E lines \in Orderings({to_download[k].url :
                                  k \in {j \in DOMAIN result : ReturnedError(j)}}) :
            manifest[1] = join(lines)

\* The run has ended and every submitted row has an outcome.
RunEnded ==
    /\ phase \in {"returned", "aborted"}
    /\ \A k \in DOMAIN st : st[k] = "done" /\ result[k] # None

\* C16: if every enabled step is taken in the end (calls to yt-dlp come
\* back, a queued call gets a thread), the run ends, by a return or by an
\* exception, with an outcome for every submitted row.
C16_Terminates == <>RunEnded

C16_Witness ==
    /\ RunEnded
    /\ max_workers = 1
    /\ Len(to_download) = 3
    /\ \E k \in DOMAIN result : ReturnedError(k)

\* The frame lacks a column of url, title, artist, or the storage root
\* cannot be created or listed.
EnvBroken ==
    \/ \E c \in {"url", "title", "artist"} : c \notin env.columns
    \/ env.storage \in {"no_create", "no_list"}

\* C17: with a frame that lacks a required column or an unusable storage
\* root, the run can only end by an exception: no row is submitted, no
\* fetch starts, and no step changes the directory or the manifest.
C17_FatalBeforeDispatch ==
    /\ [](EnvBroken =>
            /\ phase \in {"start", "aborted"}
            /\ st = <<>> /\ starts = <<>> /\ to_download = <<>>
            /\ Running = {}
            /\ manifest = None)
    /\ [][EnvBroken => (dir' = dir /\ manifest' = manifest)]_vars

C17_Witness ==
    /\ EnvBroken
    /\ phase = "aborted"
    /\ env.storage = "ok"
    /\ lf = <<RowA, RowB>>
\* The title and artist of the first raw row, in source order, with url u.
FirstSeenPair(u) ==
    Pair(raw[CHOOSE k \in DOMAIN raw :
                 /\ raw[k].url = u
                 /\ \A j \in 1..(k - 1) : raw[j].url # u])

\* C20: every row of the canonical output has a url of the raw table and
\* the first-seen title and artist of that url; the first-seen pair of every
\* raw url is in exactly one distinct output row; and the output, before
\* any distinct, has as many rows as the raw table.
C20_NoSongLostOrInvented ==
    canon_pc \in {"unified", "again"} =>
        LET out == DistinctRows(unified)
            raw_urls == {raw[i].url : i \in DOMAIN raw}
        IN  /\ \A r \in out : r.url \in raw_urls /\ Pair(r) = FirstSeenPair(r.url)
            /\ \A u \in raw_urls :
                   Cardinality({r \in out : Pair(r) = FirstSeenPair(u)}) = 1
            /\ Len(unified) = Len(raw)

C20_Witness ==
    /\ canon_pc = "unified"
    /\ RawHasDrift
    /\ RawHasRerelease
    /\ Len(raw) = 3
    /\ Cardinality(DistinctRows(unified)) < Cardinality({raw[i].url : i \in DOMAIN raw})
====
